---- MODULE Spec2Model ----
(***************************************************************************)
(* Credential flow of src/main.py: _hash_password, register_user and       *)
(* login_user, run by concurrent request handlers against one document     *)
(* store.                                                                  *)
(*                                                                         *)
(* Strings are sequences of characters, so that "+" of the source is \o.   *)
(* An Optional value is a set with at most one element: {} is None.        *)
(* hashlib.sha256(...).hexdigest() is idealised as an injective function   *)
(* (no collisions).                                                        *)
(***************************************************************************)
EXTENDS Naturals, Sequences, FiniteSets, TLC

\* The request handlers, each serving one call; calls overlap in time as the
\* handlers interleave.
Procs == {1, 2, 3}

\* At most this many of the calls are register calls (the store holds at most
\* this many records).
MaxRegisters == 2

\* Inputs of the calls.
Names == {"Alice", "Bob"}
Emails == {<<"a">>, <<"b">>}
Passwords == {<<>>, <<"p">>}

\* The values secrets.token_hex(16) may return (non-empty, all of one length).
TokenHex == {<<"0">>, <<"1">>}

\* Inputs of the hasher taken alone: any password, any salt argument
\* (None, the empty string, or a string).
HashPasswords == {<<>>, <<"p">>, <<"q">>, <<"p", "q">>}
SaltArgs == {{}, {<<>>}} \cup {{s} : s \in TokenHex \cup {<<"0", "p">>}}

None == {}
Some(x) == {x}
The(opt) == CHOOSE x \in opt : TRUE

VARIABLES
    db,        \* the store handle: None or {"Database"}
    store,     \* the documents of collection COLL_AUTH, in insertion order
    creator,   \* history: creator[i] is the call that inserted store[i]
    pc,        \* each handler's position
    payload,   \* each handler's validated request
    existing,  \* register_user's local `existing`
    user,      \* login_user's local `user`
    pwd,       \* the pair _hash_password returned to the handler
    resp,      \* the response of a finished call
    pred,      \* history: the calls that had returned when this one was issued
    ops,       \* history: the store and hasher operations this call performed
    harg,      \* hasher alone: the arguments <<password, salt>>
    hout       \* hasher alone: the results of the first and second call

vars == <<db, store, creator, pc, payload, existing, user, pwd, resp, pred, ops,
          harg, hout>>

hvars == <<harg, hout>>
svars == <<db, store, creator, pc, payload, existing, user, pwd, resp, pred, ops>>

------------------------------------------------------------------------------
\* Pure functions

\* hashlib.sha256(s.encode()).hexdigest()
sha256(s) == <<"#">> \o s

\* Variant: the salt argument is ignored, a salt is always drawn.
hash_password_fresh(password, salt, fresh) == <<sha256(fresh \o password), fresh>>

\* Variant: the digest is taken over password + salt.
hash_password_swapped(password, salt, fresh) ==
    LET s == IF salt = None \/ salt = Some(<<>>) THEN fresh ELSE The(salt)
    IN  <<sha256(password \o s), s>>

\* _hash_password(password, salt); fresh is the value secrets.token_hex(16)
\* returns if it is called.
hash_password(password, salt, fresh) ==
    LET s == IF salt = None \/ salt = Some(<<>>) THEN fresh ELSE The(salt)
    IN  <<sha256(s \o password), s>>

\* register_user: token = sha256(email + salt)
RegisterToken(email, salt) == sha256(email \o salt)

\* Variant: the token is taken over salt + email.
LoginTokenSwapped(email, u) == sha256(u.salt \o email)

\* login_user: token = sha256(email + user.get("salt", ""))
LoginToken(email, u) == sha256(email \o u.salt)

HTTPException(status_code, detail) ==
    [status |-> status_code, detail |-> detail, body |-> None]

AuthResponse(token, name, email) ==
    [status |-> 200, detail |-> "",
     body |-> Some([token |-> token, name |-> name, email |-> email])]

NoResp == [status |-> 0, detail |-> "", body |-> None]

AuthUser(email, name, password_hash, salt) ==
    [email |-> email, name |-> name, password_hash |-> password_hash, salt |-> salt]

\* The documents matching {"email": email}, by position.
Matching(email) == {i \in 1..Len(store) : store[i].email = email}

First(S) == CHOOSE i \in S : \A j \in S : i <= j

\* Variant: the existence query matches nothing.
FindLimit1Never(email) == <<>>

\* list(db[COLL_AUTH].find({"email": email}).limit(1))
FindLimit1(email) ==
    IF Matching(email) = {} THEN <<>> ELSE <<store[First(Matching(email))]>>

\* db[COLL_AUTH].find_one({"email": email}): the first match in natural
\* (insertion) order.
FindOne(email) ==
    IF Matching(email) = {} THEN None ELSE Some(store[First(Matching(email))])

\* create_document(COLL_AUTH, doc): inserts one document.
create_document(coll, doc) == Append(coll, doc)

\* Variant: the handle is not checked.
DbNeverMissing == FALSE

\* db is None
DbMissing == db = None

\* Variant: an unknown email gets an answer of its own.
UserNotFound == HTTPException(404, "User not found")

\* login_user's answer to an email without a record
UnknownEmailError == HTTPException(401, "Invalid credentials")

\* login_user's answer to a digest that differs from the stored one
WrongPasswordError == HTTPException(401, "Invalid credentials")

\* Variant: the digests are not compared.
HashMismatchNever(test_hash, u) == FALSE

\* test_hash != user.get("password_hash")
HashMismatch(test_hash, u) == test_hash # u.password_hash

------------------------------------------------------------------------------
NoPayload == [op |-> "", name |-> "", email |-> <<>>, password |-> <<>>]

Init ==
    /\ db \in {None, Some("Database")}
    /\ store = <<>>
    /\ creator = <<>>
    /\ pc = [p \in Procs |-> "idle"]
    /\ payload = [p \in Procs |-> NoPayload]
    /\ existing = [p \in Procs |-> <<>>]
    /\ user = [p \in Procs |-> None]
    /\ pwd = [p \in Procs |-> <<>>]
    /\ resp = [p \in Procs |-> NoResp]
    /\ pred = [p \in Procs |-> {}]
    /\ ops = [p \in Procs |-> {}]
    /\ harg = <<<<>>, None>>
    /\ hout = <<None, None>>

Returned == {q \in Procs : pc[q] = "done"}

Registers == {q \in Procs : payload[q].op = "register"}

\* Handlers are interchangeable: they take calls in index order.
CanStart(p) == pc[p] = "idle" /\ \A q \in Procs : q < p => pc[q] # "idle"

\* The call ends with a response (an HTTPException is the error response).
Return(p, r) ==
    /\ resp' = [resp EXCEPT ![p] = r]
    /\ pc' = [pc EXCEPT ![p] = "done"]

Goto(p, label) ==
    /\ pc' = [pc EXCEPT ![p] = label]
    /\ UNCHANGED resp

Did(p, op) == ops' = [ops EXCEPT ![p] = @ \cup {op}]

\* POST /api/auth/register arrives with a validated RegisterRequest.
RegisterStart(p) ==
    /\ CanStart(p)
    /\ Cardinality(Registers) < MaxRegisters
    /\ \E n \in Names, e \in Emails, w \in Passwords :
          payload' = [payload EXCEPT
                        ![p] = [op |-> "register", name |-> n, email |-> e, password |-> w]]
    /\ pred' = [pred EXCEPT ![p] = Returned]
    /\ Goto(p, "reg_db")
    /\ UNCHANGED <<db, store, creator, existing, user, pwd, ops, hvars>>

RegisterCheckDb(p) ==
    /\ pc[p] = "reg_db"
    /\ IF DbMissing
       THEN Return(p, HTTPException(500, "Database not configured"))
       ELSE Goto(p, "reg_find")
    /\ UNCHANGED <<db, store, creator, payload, existing, user, pwd, pred, ops, hvars>>

RegisterFind(p) ==
    /\ pc[p] = "reg_find"
    /\ existing' = [existing EXCEPT ![p] = FindLimit1(payload[p].email)]
    /\ Did(p, "find")
    /\ IF existing'[p] # <<>>
       THEN Return(p, HTTPException(400, "Email already registered"))
       ELSE Goto(p, "reg_hash")
    /\ UNCHANGED <<db, store, creator, payload, user, pwd, pred, hvars>>

RegisterHash(p) ==
    /\ pc[p] = "reg_hash"
    /\ \E fresh \in TokenHex :
          pwd' = [pwd EXCEPT ![p] = hash_password(payload[p].password, None, fresh)]
    /\ Did(p, "hash")
    /\ Goto(p, "reg_insert")
    /\ UNCHANGED <<db, store, creator, payload, existing, user, pred, hvars>>

\* Variant: the insert refuses an email already stored.
RegisterInsertUnique(p) ==
    /\ pc[p] = "reg_insert"
    /\ IF Matching(payload[p].email) # {}
       THEN /\ Return(p, HTTPException(400, "Email already registered"))
            /\ UNCHANGED <<store, creator, ops>>
       ELSE /\ store' = create_document(store,
                          AuthUser(payload[p].email, payload[p].name, pwd[p][1], pwd[p][2]))
            /\ creator' = Append(creator, p)
            /\ Did(p, "insert")
            /\ Goto(p, "reg_return")
    /\ UNCHANGED <<db, payload, existing, user, pwd, pred, hvars>>

RegisterInsert(p) ==
    /\ pc[p] = "reg_insert"
    /\ store' = create_document(store,
                   AuthUser(payload[p].email, payload[p].name, pwd[p][1], pwd[p][2]))
    /\ creator' = Append(creator, p)
    /\ Did(p, "insert")
    /\ Goto(p, "reg_return")
    /\ UNCHANGED <<db, payload, existing, user, pwd, pred, hvars>>

\* Variant: success may be answered before the insert.
RegisterReturnEarly(p) ==
    /\ pc[p] \in {"reg_insert", "reg_return"}
    /\ Return(p, AuthResponse(RegisterToken(payload[p].email, pwd[p][2]),
                              payload[p].name, payload[p].email))
    /\ UNCHANGED <<db, store, creator, payload, existing, user, pwd, pred, ops, hvars>>

RegisterReturn(p) ==
    /\ pc[p] = "reg_return"
    /\ Return(p, AuthResponse(RegisterToken(payload[p].email, pwd[p][2]),
                              payload[p].name, payload[p].email))
    /\ UNCHANGED <<db, store, creator, payload, existing, user, pwd, pred, ops, hvars>>

\* POST /api/auth/login arrives with a validated LoginRequest.
LoginStart(p) ==
    /\ CanStart(p)
    /\ \E e \in Emails, w \in Passwords :
          payload' = [payload EXCEPT
                        ![p] = [op |-> "login", name |-> "", email |-> e, password |-> w]]
    /\ pred' = [pred EXCEPT ![p] = Returned]
    /\ Goto(p, "log_db")
    /\ UNCHANGED <<db, store, creator, existing, user, pwd, ops, hvars>>

LoginCheckDb(p) ==
    /\ pc[p] = "log_db"
    /\ IF DbMissing
       THEN Return(p, HTTPException(500, "Database not configured"))
       ELSE Goto(p, "log_find")
    /\ UNCHANGED <<db, store, creator, payload, existing, user, pwd, pred, ops, hvars>>

LoginFindOne(p) ==
    /\ pc[p] = "log_find"
    /\ user' = [user EXCEPT ![p] = FindOne(payload[p].email)]
    /\ Did(p, "find")
    /\ IF user'[p] = None
       THEN Return(p, UnknownEmailError)
       ELSE Goto(p, "log_verify")
    /\ UNCHANGED <<db, store, creator, payload, existing, pwd, pred, hvars>>

LoginVerify(p) ==
    /\ pc[p] = "log_verify"
    /\ \E fresh \in TokenHex :
          pwd' = [pwd EXCEPT ![p] =
                    hash_password(payload[p].password, Some(The(user[p]).salt), fresh)]
    /\ Did(p, "hash")
    /\ IF HashMismatch(pwd'[p][1], The(user[p]))
       THEN Return(p, WrongPasswordError)
       ELSE Goto(p, "log_return")
    /\ UNCHANGED <<db, store, creator, payload, existing, user, pred, hvars>>

\* Variant: a successful login re-salts the stored record.
LoginReturnRehash(p) ==
    /\ pc[p] = "log_return"
    /\ Return(p, AuthResponse(LoginToken(payload[p].email, The(user[p])),
                              The(user[p]).name, payload[p].email))
    /\ \E fresh \in TokenHex :
          store' = [i \in 1..Len(store) |->
                      IF i = First(Matching(payload[p].email))
                      THEN [store[i] EXCEPT
                              !.salt = fresh,
                              !.password_hash = sha256(fresh \o payload[p].password)]
                      ELSE store[i]]
    /\ UNCHANGED <<db, creator, payload, existing, user, pwd, pred, ops, hvars>>

LoginReturn(p) ==
    /\ pc[p] = "log_return"
    /\ Return(p, AuthResponse(LoginToken(payload[p].email, The(user[p])),
                              The(user[p]).name, payload[p].email))
    /\ UNCHANGED <<db, store, creator, payload, existing, user, pwd, pred, ops, hvars>>

Next ==
    \E p \in Procs :
        \/ RegisterStart(p)
        \/ RegisterCheckDb(p)
        \/ RegisterFind(p)
        \/ RegisterHash(p)
        \/ RegisterInsert(p)
        \/ RegisterReturn(p)
        \/ LoginStart(p)
        \/ LoginCheckDb(p)
        \/ LoginFindOne(p)
        \/ LoginVerify(p)
        \/ LoginReturn(p)

Spec == Init /\ [][Next]_vars

------------------------------------------------------------------------------
\* The hasher alone: _hash_password called twice with the same arguments.

InitHash ==
    /\ db = None
    /\ store = <<>>
    /\ creator = <<>>
    /\ pc = [p \in Procs |-> "idle"]
    /\ payload = [p \in Procs |-> NoPayload]
    /\ existing = [p \in Procs |-> <<>>]
    /\ user = [p \in Procs |-> None]
    /\ pwd = [p \in Procs |-> <<>>]
    /\ resp = [p \in Procs |-> NoResp]
    /\ pred = [p \in Procs |-> {}]
    /\ ops = [p \in Procs |-> {}]
    /\ harg \in HashPasswords \X SaltArgs
    /\ hout = <<None, None>>

HashCall(k) ==
    /\ hout[k] = None
    /\ \E fresh \in TokenHex :
          hout' = [hout EXCEPT ![k] = Some(hash_password(harg[1], harg[2], fresh))]
    /\ UNCHANGED <<harg, svars>>

NextHash == HashCall(1) \/ HashCall(2)

SpecHash == InitHash /\ [][NextHash]_vars

------------------------------------------------------------------------------
\* Vocabulary of the properties

IsRegister(p) == payload[p].op = "register"
IsLogin(p) == payload[p].op = "login"
Done(p) == pc[p] = "done"
Succeeded(p) == Done(p) /\ resp[p].status = 200

\* q was issued after p returned.
After(p, q) == p \in pred[q]

\* p and q overlap in time: both were issued, neither after the other returned.
Overlap(p, q) ==
    /\ p # q
    /\ pc[p] # "idle" /\ pc[q] # "idle"
    /\ ~After(p, q) /\ ~After(q, p)

SameEmail(p, q) == payload[p].email = payload[q].email

\* No other register call for p's email overlaps p.
Unraced(p) ==
    \A r \in Procs : IsRegister(r) /\ SameEmail(p, r) => ~Overlap(p, r)

InsertedBy(p) == {i \in 1..Len(store) : creator[i] = p}

DuplicateEmail(e) == Cardinality(Matching(e)) >= 2

\* login q found no record for its email.
UnknownEmail(q) == IsLogin(q) /\ Done(q) /\ "find" \in ops[q] /\ user[q] = None

\* login q found a record whose password_hash is not the digest of q's password.
WrongPassword(q) ==
    /\ IsLogin(q) /\ Done(q) /\ user[q] # None
    /\ sha256(The(user[q]).salt \o payload[q].password) # The(user[q]).password_hash

------------------------------------------------------------------------------
\* C1 (as claimed): whenever register(name, email, pw) returned success, a
\* login(email, pw) issued after it succeeds with the token, email and name
\* the register call returned.
C1_RoundTrip_AnyRegister ==
    \A p, q \in Procs :
        ( /\ IsRegister(p) /\ Succeeded(p)
          /\ IsLogin(q) /\ Done(q) /\ After(p, q)
          /\ SameEmail(p, q) /\ payload[q].password = payload[p].password )
        => resp[q] = resp[p]

\* C1 (amended): the same, for a register call that no other register call
\* for the same email overlapped in time.
C1_RoundTrip ==
    \A p, q \in Procs :
        ( /\ IsRegister(p) /\ Succeeded(p) /\ Unraced(p)
          /\ IsLogin(q) /\ Done(q) /\ After(p, q)
          /\ SameEmail(p, q) /\ payload[q].password = payload[p].password )
        => /\ resp[q].status = 200
           /\ resp[q] = resp[p]
           /\ The(resp[q].body).token = sha256(payload[p].email \o store[First(InsertedBy(p))].salt)

C1_Witness ==
    \E p, q \in Procs :
        /\ IsRegister(p) /\ Succeeded(p) /\ Unraced(p)
        /\ IsLogin(q) /\ Succeeded(q) /\ After(p, q)
        /\ SameEmail(p, q) /\ payload[q].password = payload[p].password
        /\ \E r \in Procs : IsRegister(r) /\ r # p /\ Done(r)

\* C2: a register call issued after a register call for the same email
\* returned success fails with 400 "Email already registered", whatever its
\* name and password; when no two register calls overlap in time the store
\* never holds two records with the same email.
C2_SequentialDuplicate ==
    /\ \A p, r \in Procs :
          ( /\ IsRegister(p) /\ Succeeded(p)
            /\ IsRegister(r) /\ Done(r) /\ After(p, r) /\ SameEmail(p, r) )
          => resp[r] = HTTPException(400, "Email already registered")
    /\ (\A p, r \in Procs : IsRegister(p) /\ IsRegister(r) => ~Overlap(p, r))
          => \A e \in Emails : ~DuplicateEmail(e)

C2_Witness ==
    \E p, r \in Procs :
        /\ IsRegister(p) /\ Succeeded(p)
        /\ IsRegister(r) /\ Done(r) /\ After(p, r) /\ SameEmail(p, r)
        /\ payload[r].name # payload[p].name
        /\ payload[r].password # payload[p].password
        /\ resp[r].status = 400

\* C3 (as claimed): after a successful register(name, email, pw), every
\* login(email, wrong_pw) with wrong_pw # pw fails with 401 and no token.
C3_WrongPassword_AnyRegister ==
    \A p, q \in Procs :
        ( /\ IsRegister(p) /\ Succeeded(p)
          /\ IsLogin(q) /\ Done(q) /\ After(p, q)
          /\ SameEmail(p, q) /\ payload[q].password # payload[p].password )
        => resp[q] = HTTPException(401, "Invalid credentials")

\* C3 (amended): the same, for a register call that no other register call
\* for the same email overlapped in time.
C3_WrongPassword ==
    \A p, q \in Procs :
        ( /\ IsRegister(p) /\ Succeeded(p) /\ Unraced(p)
          /\ IsLogin(q) /\ Done(q) /\ After(p, q)
          /\ SameEmail(p, q) /\ payload[q].password # payload[p].password )
        => resp[q] = HTTPException(401, "Invalid credentials")

C3_Witness ==
    \E p, q \in Procs :
        /\ IsRegister(p) /\ Succeeded(p) /\ Unraced(p)
        /\ IsLogin(q) /\ Done(q) /\ After(p, q)
        /\ SameEmail(p, q) /\ payload[q].password # payload[p].password
        /\ resp[q].status = 401 /\ resp[q].body = None

\* C4: a login for an email without a record fails with 401 "Invalid
\* credentials", and that response equals the response of a login for a
\* registered email with a wrong password.
C4_NoEnumeration ==
    /\ \A q \in Procs :
          UnknownEmail(q) => resp[q] = HTTPException(401, "Invalid credentials")
    /\ \A q, r \in Procs : UnknownEmail(q) /\ WrongPassword(r) => resp[q] = resp[r]

C4_Witness ==
    \E q, r \in Procs : UnknownEmail(q) /\ WrongPassword(r) /\ resp[r].status = 401

\* C5: with the store handle absent, every call that returns fails with 500
\* "Database not configured", and no call queries the store, inserts or hashes.
C5_ConfigurationError ==
    db = None =>
        /\ store = <<>>
        /\ \A p \in Procs :
              /\ ops[p] = {}
              /\ pc[p] \in {"idle", "reg_db", "log_db", "done"}
              /\ Done(p) => resp[p] = HTTPException(500, "Database not configured")

C5_Witness ==
    /\ db = None
    /\ \E p, q \in Procs : IsRegister(p) /\ Done(p) /\ IsLogin(q) /\ Done(q)

\* p passed the existence check, and the store holds another call's record
\* with p's email.
Raced(p) ==
    /\ IsRegister(p) /\ "find" \in ops[p] /\ existing[p] = <<>>
    /\ \E i \in Matching(payload[p].email) : creator[i] # p

\* C6: a register call that passed the existence check inserts its record and
\* returns success also when another call has inserted a record with the same
\* email in between, which leaves two records with that email; and two
\* records with one email, once stored, stay stored.
C6_RaceUnresolved ==
    /\ [](\A p \in Procs :
            Raced(p) /\ Done(p) =>
                /\ resp[p].status = 200
                /\ InsertedBy(p) # {}
                /\ DuplicateEmail(payload[p].email))
    /\ [][\A e \in Emails : DuplicateEmail(e) => DuplicateEmail(e)']_vars

C6_Witness ==
    \E p, r \in Procs :
        /\ p # r /\ Overlap(p, r) /\ SameEmail(p, r)
        /\ IsRegister(p) /\ Succeeded(p)
        /\ IsRegister(r) /\ Succeeded(r)
        /\ Len(store) = 2 /\ store[1].email = store[2].email

\* C7: every stored record has a non-empty salt and a password_hash equal to
\* the digest of salt + the password of the register call that created it,
\* and no field of a stored record ever changes.
C7_RecordInvariant ==
    /\ [](\A i \in 1..Len(store) :
            /\ store[i].salt # <<>>
            /\ store[i].password_hash = sha256(store[i].salt \o payload[creator[i]].password)
            /\ store[i].email = payload[creator[i]].email
            /\ store[i].name = payload[creator[i]].name)
    /\ [][\A i \in 1..Len(store) : i <= Len(store') /\ store'[i] = store[i]]_vars

C7_Witness ==
    /\ Len(store) = 2
    /\ store[1].salt # store[2].salt
    /\ \E q \in Procs : IsLogin(q) /\ Done(q)

\* C8 (as claimed): two calls of the hasher with the same password and salt
\* argument return the same digest and the same salt.
C8_Deterministic_AnySalt ==
    hout[1] # None /\ hout[2] # None => hout[1] = hout[2]

\* C8 (amended): the same, for a salt argument that is a non-empty string.
C8_Deterministic ==
    ( /\ harg[2] # None /\ harg[2] # Some(<<>>)
      /\ hout[1] # None /\ hout[2] # None )
    => /\ hout[1] = hout[2]
       /\ The(hout[1])[2] = The(harg[2])

C8_Witness ==
    /\ harg[2] # None /\ harg[2] # Some(<<>>)
    /\ harg[1] # <<>>
    /\ hout[1] # None /\ hout[2] # None

\* C9: no step of a login call changes the store, a login call performs no
\* insert, and every step of the system keeps the stored records as they are
\* (the store only grows).
C9_LoginFrame ==
    /\ [](\A q \in Procs : IsLogin(q) => "insert" \notin ops[q] /\ InsertedBy(q) = {})
    /\ [][ /\ \A q \in Procs : IsLogin(q) /\ pc'[q] # pc[q] => store' = store
           /\ Len(store') >= Len(store)
           /\ SubSeq(store', 1, Len(store)) = store ]_vars

C9_Witness ==
    /\ Len(store) >= 1
    /\ \E q, r \in Procs :
          /\ IsLogin(q) /\ Succeeded(q)
          /\ IsLogin(r) /\ Done(r) /\ resp[r].status = 401

\* C10: a register call that returned success inserted exactly one record; one
\* that failed with 500 or 400 inserted none; a call inserts only after its
\* existence check found no record, at most once, and answers success only
\* after its insert.
C10_RegisterEffect ==
    \A p \in Procs :
        IsRegister(p) =>
            /\ Succeeded(p) => Cardinality(InsertedBy(p)) = 1 /\ "insert" \in ops[p]
            /\ Done(p) /\ resp[p].status \in {400, 500} => InsertedBy(p) = {}
            /\ Done(p) => resp[p].status \in {200, 400, 500}
            /\ Cardinality(InsertedBy(p)) <= 1
            /\ InsertedBy(p) # {} <=> "insert" \in ops[p]
            /\ "insert" \in ops[p] => "find" \in ops[p] /\ existing[p] = <<>>

C10_Witness ==
    \E p, r \in Procs :
        /\ IsRegister(p) /\ Succeeded(p)
        /\ IsRegister(r) /\ Done(r) /\ resp[r].status = 400
        /\ Len(store) = 1

====
